---- MODULE Spec2Model ----
(***************************************************************************)
(* Student Grade Analyzer (src/lecture_3/main.py).                         *)
(*                                                                         *)
(* One step of the model is one line read from standard input together     *)
(* with everything the program does until it blocks on the next read (or   *)
(* exits).  Lines of text are tuples of one-character strings so that      *)
(* str.strip, str.isdigit, str.lower and int() are computed, not assumed.  *)
(* Averages are Python floats in the source; here they are exact           *)
(* rationals [num, den].  Within the bounds below distinct rationals map   *)
(* to distinct floats and every value that lies exactly half way between   *)
(* two one-decimal numbers is a multiple of 1/4, computed exactly by the   *)
(* float arithmetic, so comparison and "%.1f" agree with the rationals.    *)
(***************************************************************************)
EXTENDS Integers, Sequences, FiniteSets, TLC

\* Bound of the model: grades entered per record (the program has no limit).
\* The roster is bounded by NameInputs, since names are unique.
MaxGrades == 2

VARIABLES student_list, pc, cur, inp, out

vars == <<student_list, pc, cur, inp, out>>

(***************************************************************************)
(* Text helpers                                                            *)
(***************************************************************************)
Whitespace == {" "}

Digits == {"0", "1", "2", "3", "4", "5", "6", "7", "8", "9"}

DigitVal(c) ==
  CASE c = "0" -> 0 [] c = "1" -> 1 [] c = "2" -> 2 [] c = "3" -> 3
    [] c = "4" -> 4 [] c = "5" -> 5 [] c = "6" -> 6 [] c = "7" -> 7
    [] c = "8" -> 8 [] c = "9" -> 9

RECURSIVE LStrip(_)
LStrip(s) ==
  IF s # <<>> /\ Head(s) \in Whitespace THEN LStrip(Tail(s)) ELSE s

RECURSIVE RStrip(_)
RStrip(s) ==
  IF s # <<>> /\ s[Len(s)] \in Whitespace
    THEN RStrip(SubSeq(s, 1, Len(s) - 1))
    ELSE s

\* str.strip()
Strip(s) == RStrip(LStrip(s))

\* str.isdigit(): non-empty and every character is a digit
isdigit(s) == s # <<>> /\ \A i \in 1..Len(s) : s[i] \in Digits

LowerChar(c) ==
  CASE c = "D" -> "d" [] c = "O" -> "o" [] c = "N" -> "n" [] c = "E" -> "e"
    [] c = "A" -> "a" [] OTHER -> c

\* str.lower()
Lower(s) == [i \in 1..Len(s) |-> LowerChar(s[i])]

IsDigitChar(c) == c \in Digits

RECURSIVE DigitsValue(_)
DigitsValue(ds) ==
  IF ds = <<>> THEN 0
  ELSE 10 * DigitsValue(SubSeq(ds, 1, Len(ds) - 1)) + DigitVal(ds[Len(ds)])

\* int(text): surrounding whitespace is ignored, one optional sign, then
\* digits that may be separated by single underscores.  ok = FALSE stands
\* for ValueError.
ParseInt(s) ==
  LET t == Strip(s)
      signed == t # <<>> /\ t[1] \in {"+", "-"}
      body == IF signed THEN Tail(t) ELSE t
      wellformed ==
        /\ body # <<>>
        /\ \A i \in 1..Len(body) : body[i] \in Digits \cup {"_"}
        /\ body[1] \in Digits
        /\ body[Len(body)] \in Digits
        /\ \A i \in 1..(Len(body) - 1) : ~(body[i] = "_" /\ body[i + 1] = "_")
      magnitude == DigitsValue(SelectSeq(body, IsDigitChar))
  IN IF wellformed
       THEN [ok |-> TRUE,
             val |-> IF signed /\ t[1] = "-" THEN 0 - magnitude ELSE magnitude]
       ELSE [ok |-> FALSE, val |-> 0]

(***************************************************************************)
(* Input lines offered at each prompt                                      *)
(***************************************************************************)
MenuInputs ==
  { <<"1">>, <<"2">>, <<"3">>, <<"4">>, <<"5">>, <<" ", "5">>,
    <<"6">>, <<"0">>, <<"-", "1">>, <<>>, <<"a", "b", "c">> }

NameInputs ==
  { <<>>, <<" ">>, <<"1", "2">>,
    <<"a", "1">>, <<"A", "1">>, <<" ", "a", "1", " ">> }

GradeInputs ==
  { <<"d", "o", "n", "e">>, <<"D", "O", "N", "E">>, <<" ", "d", "o", "n", "e">>,
    <<"0">>, <<"5">>, <<"1", "0", "0">>, <<"1", "0", "1">>, <<"-", "1">>,
    <<"+", "5">>, <<"1", "_", "0", "0">>, <<"5", ".", "0">>, <<>> }

(***************************************************************************)
(* Printed lines                                                           *)
(***************************************************************************)
Line(kind, name, na, num, den) ==
  [kind |-> kind, name |-> name, na |-> na, num |-> num, den |-> den]

Msg(kind) == Line(kind, <<>>, FALSE, 0, 1)

\* display_menu(): the six menu lines, as one block
display_menu == <<Msg("----- Student Grade Analyzer -----")>>

(***************************************************************************)
(* Add student                                                             *)
(***************************************************************************)
\* Variant: only emptiness is tested, bool(name).
is_valid_name_nonempty(name) == name # <<>>

\* bool(name and not name.isdigit())
is_valid_name(name) == name # <<>> /\ ~isdigit(name)

\* Variant: only the most recently added record is compared.
is_duplicate_name_last_only(name, students) ==
  students # <<>> /\ name = students[Len(students)].name

\* any(name == student["name"] for student in student_list)
is_duplicate_name(name, students) ==
  \E i \in 1..Len(students) : name = students[i].name

\* Variant: an invalid name returns None instead of reading another line.
get_valid_student_name_abort(line, students) ==
  LET name_input == Strip(line)
  IN IF ~is_valid_name(name_input)
       THEN [retry |-> FALSE, none |-> TRUE, name |-> <<>>,
             printed |-> <<Msg("Please enter a valid name (not empty and not just numbers)")>>]
       ELSE IF is_duplicate_name(name_input, students)
         THEN [retry |-> FALSE, none |-> TRUE, name |-> <<>>,
               printed |-> <<Msg("This student name already exists")>>]
         ELSE [retry |-> FALSE, none |-> FALSE, name |-> name_input,
               printed |-> <<>>]

\* Variant: the line as typed is returned instead of the stripped name.
get_valid_student_name_raw(line, students) ==
  LET name_input == Strip(line)
  IN IF ~is_valid_name(name_input)
       THEN [retry |-> TRUE, none |-> FALSE, name |-> <<>>,
             printed |-> <<Msg("Please enter a valid name (not empty and not just numbers)")>>]
       ELSE IF is_duplicate_name(name_input, students)
         THEN [retry |-> FALSE, none |-> TRUE, name |-> <<>>,
               printed |-> <<Msg("This student name already exists")>>]
         ELSE [retry |-> FALSE, none |-> FALSE, name |-> line,
               printed |-> <<>>]

\* One pass of the loop of get_valid_student_name on the line just read:
\* retry = TRUE is the `continue`, otherwise name is the returned name and
\* none = TRUE is the returned None.
get_valid_student_name(line, students) ==
  LET name_input == Strip(line)
  IN IF ~is_valid_name(name_input)
       THEN [retry |-> TRUE, none |-> FALSE, name |-> <<>>,
             printed |-> <<Msg("Please enter a valid name (not empty and not just numbers)")>>]
       ELSE IF is_duplicate_name(name_input, students)
         THEN [retry |-> FALSE, none |-> TRUE, name |-> <<>>,
               printed |-> <<Msg("This student name already exists")>>]
         ELSE [retry |-> FALSE, none |-> FALSE, name |-> name_input,
               printed |-> <<>>]

(***************************************************************************)
(* Add grades                                                              *)
(***************************************************************************)
\* Index of the first record with that name, 0 for None.
find_student_by_name(name, students) ==
  IF \E i \in 1..Len(students) : students[i].name = name
    THEN CHOOSE i \in 1..Len(students) :
           /\ students[i].name = name
           /\ \A j \in 1..(i - 1) : students[j].name # name
    ELSE 0

\* Variant: the upper limit is not tested, 0 <= grade.
validate_grade_input_no_upper(input_string) ==
  LET parsed == ParseInt(input_string)
  IN IF parsed.ok
       THEN IF 0 <= parsed.val
              THEN [some |-> TRUE, val |-> parsed.val, printed |-> <<>>]
              ELSE [some |-> FALSE, val |-> 0,
                    printed |-> <<Msg("Grade must be between 0 and 100")>>]
       ELSE [some |-> FALSE, val |-> 0,
             printed |-> <<Msg("Please enter a valid number")>>]

\* some = FALSE is the returned None.
validate_grade_input(input_string) ==
  LET parsed == ParseInt(input_string)
  IN IF parsed.ok
       THEN IF 0 <= parsed.val /\ parsed.val <= 100
              THEN [some |-> TRUE, val |-> parsed.val, printed |-> <<>>]
              ELSE [some |-> FALSE, val |-> 0,
                    printed |-> <<Msg("Grade must be between 0 and 100")>>]
       ELSE [some |-> FALSE, val |-> 0,
             printed |-> <<Msg("Please enter a valid number")>>]

(***************************************************************************)
(* Averages                                                                *)
(***************************************************************************)
RECURSIVE sum(_)
sum(grades) == IF grades = <<>> THEN 0 ELSE Head(grades) + sum(Tail(grades))

Rat(num, den) == [num |-> num, den |-> den]

\* sum(grades) / len(grades), for a non-empty sequence
Mean(grades) == Rat(sum(grades), Len(grades))

RatLess(x, y) == x.num * y.den < y.num * x.den

RatAdd(x, y) == Rat(x.num * y.den + y.num * x.den, x.den * y.den)

\* f"{x:.1f}" of a non-negative value, in tenths; a value exactly half way
\* goes to the even neighbour.
Format1f(x) ==
  LET q == (10 * x.num) \div x.den
      r == (10 * x.num) % x.den
  IN IF 2 * r > x.den THEN q + 1
     ELSE IF 2 * r < x.den THEN q
     ELSE IF q % 2 = 0 THEN q ELSE q + 1

\* "N/A" (na = TRUE) or the mean
calculate_average_grade(grades) ==
  IF grades = <<>>
    THEN [na |-> TRUE, num |-> 0, den |-> 1]
    ELSE [na |-> FALSE, num |-> sum(grades), den |-> Len(grades)]

has_graded_students(students) ==
  \E i \in 1..Len(students) : students[i].grades # <<>>

\* One line per record, in list order.
display_student_grades(students) ==
  [i \in 1..Len(students) |->
     LET avg == calculate_average_grade(students[i].grades)
     IN Line("average grade", students[i].name, avg.na, avg.num, avg.den)]

RECURSIVE averages_of_with_zero(_)
\* Variant: a record without grades counts as the average 0.
averages_of_with_zero(students) ==
  IF students = <<>> THEN <<>>
  ELSE (IF Head(students).grades # <<>>
          THEN <<Mean(Head(students).grades)>>
          ELSE <<Rat(0, 1)>>) \o averages_of_with_zero(Tail(students))

RECURSIVE averages_of(_)
\* the list `averages` built by the loop of display_statistics
averages_of(students) ==
  IF students = <<>> THEN <<>>
  ELSE (IF Head(students).grades # <<>>
          THEN <<Mean(Head(students).grades)>>
          ELSE <<>>) \o averages_of(Tail(students))

RECURSIVE max(_)
\* max(list) of a non-empty list: a later item replaces the current one only
\* if it is strictly greater
max(xs) ==
  IF Len(xs) = 1 THEN xs[1]
  ELSE LET m == max(SubSeq(xs, 1, Len(xs) - 1))
       IN IF RatLess(m, xs[Len(xs)]) THEN xs[Len(xs)] ELSE m

RECURSIVE min(_)
min(xs) ==
  IF Len(xs) = 1 THEN xs[1]
  ELSE LET m == min(SubSeq(xs, 1, Len(xs) - 1))
       IN IF RatLess(xs[Len(xs)], m) THEN xs[Len(xs)] ELSE m

RECURSIVE RatSum(_)
RatSum(xs) == IF xs = <<>> THEN Rat(0, 1) ELSE RatAdd(Head(xs), RatSum(Tail(xs)))

display_statistics(students) ==
  LET averages == averages_of(students)
      total == RatSum(averages)
  IN IF averages # <<>>
       THEN << Msg("-------------------------------"),
               Line("Highest Average", <<>>, FALSE, Format1f(max(averages)), 10),
               Line("Lowest Average", <<>>, FALSE, Format1f(min(averages)), 10),
               Line("Class Average", <<>>, FALSE,
                    Format1f(Rat(total.num, total.den * Len(averages))), 10),
               Msg("-------------------------------") >>
       ELSE <<>>

generate_full_report(students) ==
  <<Msg("----- Student Report -----")>> \o
  (IF students = <<>>
     THEN <<Msg("No students in records")>>
     ELSE display_student_grades(students) \o
          (IF has_graded_students(students)
             THEN display_statistics(students)
             ELSE <<>>))

(***************************************************************************)
(* Top performer                                                           *)
(***************************************************************************)
HasGrades(s) == s.grades # <<>>

RECURSIVE find_top_performer_last(_)
\* Variant: a later record of equal mean replaces the current best.
find_top_performer_last(students_with_grades) ==
  IF Len(students_with_grades) = 1 THEN students_with_grades[1]
  ELSE LET n == Len(students_with_grades)
           best == find_top_performer_last(SubSeq(students_with_grades, 1, n - 1))
           last == students_with_grades[n]
       IN IF RatLess(Mean(last.grades), Mean(best.grades)) THEN best ELSE last

RECURSIVE find_top_performer(_)
\* max(students_with_grades, key=mean): the first record of maximal mean
find_top_performer(students_with_grades) ==
  IF Len(students_with_grades) = 1 THEN students_with_grades[1]
  ELSE LET n == Len(students_with_grades)
           best == find_top_performer(SubSeq(students_with_grades, 1, n - 1))
           last == students_with_grades[n]
       IN IF RatLess(Mean(best.grades), Mean(last.grades)) THEN last ELSE best

display_top_student(student) ==
  <<Line("Top student", student.name, FALSE, Format1f(Mean(student.grades)), 10)>>

find_best_student(students) ==
  IF students = <<>>
    THEN <<Msg("No students in records")>>
    ELSE LET graded_students == SelectSeq(students, HasGrades)
         IN IF graded_students = <<>>
              THEN <<Msg("No students have grades yet")>>
              ELSE display_top_student(find_top_performer(graded_students))

(***************************************************************************)
(* Menu                                                                    *)
(***************************************************************************)
exit_program == <<Msg("Goodbye!")>>

invalid_choice == <<Msg("Invalid option selected")>>

\* Variant: an unknown choice falls through to add_new_student.
handle_user_choice_default_add(choice, students) ==
  CASE choice = 2 -> [pc |-> "grades_name", printed |-> <<>>]
    [] choice = 3 -> [pc |-> "menu",
                      printed |-> generate_full_report(students) \o display_menu]
    [] choice = 4 -> [pc |-> "menu",
                      printed |-> find_best_student(students) \o display_menu]
    [] choice = 5 -> [pc |-> "exited", printed |-> exit_program]
    [] OTHER -> [pc |-> "add_name", printed |-> <<>>]

\* Variant: every choice from 5 upwards exits.
handle_user_choice_exit_ge5(choice, students) ==
  CASE choice = 1 -> [pc |-> "add_name", printed |-> <<>>]
    [] choice = 2 -> [pc |-> "grades_name", printed |-> <<>>]
    [] choice = 3 -> [pc |-> "menu",
                      printed |-> generate_full_report(students) \o display_menu]
    [] choice = 4 -> [pc |-> "menu",
                      printed |-> find_best_student(students) \o display_menu]
    [] choice >= 5 -> [pc |-> "exited", printed |-> exit_program]
    [] OTHER -> [pc |-> "menu", printed |-> invalid_choice \o display_menu]

\* What option `choice` of handle_user_choice does to the control state and
\* what it prints before the program blocks on input again.
handle_user_choice(choice, students) ==
  CASE choice = 1 -> [pc |-> "add_name", printed |-> <<>>]
    [] choice = 2 -> [pc |-> "grades_name", printed |-> <<>>]
    [] choice = 3 -> [pc |-> "menu",
                      printed |-> generate_full_report(students) \o display_menu]
    [] choice = 4 -> [pc |-> "menu",
                      printed |-> find_best_student(students) \o display_menu]
    [] choice = 5 -> [pc |-> "exited", printed |-> exit_program]
    [] OTHER -> [pc |-> "menu", printed |-> invalid_choice \o display_menu]

(***************************************************************************)
(* State machine                                                           *)
(*   student_list  the roster owned by main()                              *)
(*   pc            the input() call the program is blocked on, or "exited" *)
(*   cur           index of the record held by add_grades_to_student       *)
(*   inp           the line consumed by the last step                      *)
(*   out           what the last step printed                              *)
(***************************************************************************)
Init ==
  /\ student_list = <<>>
  /\ pc = "menu"
  /\ cur = 0
  /\ inp = <<>>
  /\ out = display_menu

\* main loop: one line read by get_menu_choice, then handle_user_choice
main(line) ==
  /\ pc = "menu"
  /\ inp' = line
  /\ LET parsed == ParseInt(line)
     IN IF ~parsed.ok
          THEN /\ out' = <<Msg("Please enter a valid number")>>
               /\ pc' = "menu"
          ELSE LET action == handle_user_choice(parsed.val, student_list)
               IN /\ out' = action.printed
                  /\ pc' = action.pc
  /\ UNCHANGED <<student_list, cur>>

\* add_new_student: one line read by get_valid_student_name
add_new_student(line) ==
  /\ pc = "add_name"
  /\ inp' = line
  /\ LET r == get_valid_student_name(line, student_list)
     IN IF r.retry
          THEN /\ out' = r.printed
               /\ pc' = "add_name"
               /\ UNCHANGED student_list
          ELSE IF ~r.none /\ r.name # <<>>
            THEN /\ student_list' =
                      Append(student_list, [name |-> r.name, grades |-> <<>>])
                 /\ out' = r.printed
                           \o <<Line("Student added successfully", r.name, FALSE, 0, 1)>>
                           \o display_menu
                 /\ pc' = "menu"
            ELSE /\ out' = r.printed \o display_menu
                 /\ pc' = "menu"
                 /\ UNCHANGED student_list
  /\ UNCHANGED cur

\* add_student_grades: the name line, up to the first "Grade: " prompt
add_student_grades(line) ==
  /\ pc = "grades_name"
  /\ inp' = line
  /\ LET name == Strip(line)
         student == find_student_by_name(name, student_list)
     IN IF student = 0
          THEN /\ out' = <<Msg("Student not found in records")>> \o display_menu
               /\ pc' = "menu"
               /\ cur' = 0
          ELSE /\ out' = <<Msg("Enter grades (0-100). Type 'done' to finish:")>>
               /\ pc' = "grade"
               /\ cur' = student
  /\ UNCHANGED student_list

\* Variant: the grade list is replaced by the new grade instead of being
\* appended to.
add_grades_to_student_overwrite(grade_input) ==
  /\ pc = "grade"
  /\ inp' = grade_input
  /\ IF Lower(grade_input) = <<"d", "o", "n", "e">>
       THEN /\ out' = display_menu
            /\ pc' = "menu"
            /\ cur' = 0
            /\ UNCHANGED student_list
       ELSE LET grade_value == validate_grade_input(grade_input)
            IN /\ pc' = "grade"
               /\ UNCHANGED cur
               /\ IF grade_value.some
                    THEN /\ Len(student_list[cur].grades) < MaxGrades
                         /\ student_list' =
                              [student_list EXCEPT ![cur].grades = <<grade_value.val>>]
                         /\ out' = grade_value.printed
                                   \o <<Line("Grade added", <<>>, FALSE, grade_value.val, 1)>>
                    ELSE /\ out' = grade_value.printed
                         /\ UNCHANGED student_list

\* add_grades_to_student: one pass of its loop
add_grades_to_student(grade_input) ==
  /\ pc = "grade"
  /\ inp' = grade_input
  /\ IF Lower(grade_input) = <<"d", "o", "n", "e">>
       THEN /\ out' = display_menu
            /\ pc' = "menu"
            /\ cur' = 0
            /\ UNCHANGED student_list
       ELSE LET grade_value == validate_grade_input(grade_input)
            IN /\ pc' = "grade"
               /\ UNCHANGED cur
               /\ IF grade_value.some
                    THEN /\ Len(student_list[cur].grades) < MaxGrades
                         /\ student_list' =
                              [student_list EXCEPT ![cur].grades =
                                 Append(@, grade_value.val)]
                         /\ out' = grade_value.printed
                                   \o <<Line("Grade added", <<>>, FALSE, grade_value.val, 1)>>
                    ELSE /\ out' = grade_value.printed
                         /\ UNCHANGED student_list

Next ==
  \/ \E line \in MenuInputs : main(line)
  \/ \E line \in NameInputs : add_new_student(line)
  \/ \E line \in NameInputs : add_student_grades(line)
  \/ \E line \in GradeInputs : add_grades_to_student(line)

Spec == Init /\ [][Next]_vars

(***************************************************************************)
(* Properties                                                              *)
(***************************************************************************)
Names == {student_list[i].name : i \in 1..Len(student_list)}

Done == <<"d", "o", "n", "e">>

\* C1: every stored grade is an integer in 0..100, and in the grade loop a
\* line other than the sentinel that is not an integer, or is an integer
\* below 0 or above 100, leaves the roster unchanged and the loop prompts
\* for a grade again.
C1_GradesInRange ==
  /\ [](\A i \in 1..Len(student_list) :
          \A j \in 1..Len(student_list[i].grades) :
            student_list[i].grades[j] \in 0..100)
  /\ [][(/\ pc = "grade"
         /\ Lower(inp') # Done
         /\ \/ ~ParseInt(inp').ok
            \/ ParseInt(inp').val < 0
            \/ ParseInt(inp').val > 100)
        => (student_list' = student_list /\ pc' = "grade" /\ cur' = cur)]_vars

\* An out-of-range line was just rejected in the grade loop, and the grade
\* entered before it is still stored.
C1_Witness ==
  /\ pc = "grade"
  /\ inp = <<"1", "0", "1">>
  /\ out = <<Msg("Grade must be between 0 and 100")>>
  /\ student_list[cur].grades = <<100>>

\* C2: no two records have the same name, and every stored name is
\* non-empty and has a character that is not a digit.
C2_UniqueValidNames ==
  /\ \A i, j \in 1..Len(student_list) :
       i # j => student_list[i].name # student_list[j].name
  /\ \A i \in 1..Len(student_list) :
       /\ student_list[i].name # <<>>
       /\ \E k \in 1..Len(student_list[i].name) :
            student_list[i].name[k] \notin Digits

\* Two names that differ only in case are both stored, and a third attempt
\* with an existing name was just refused.
C2_Witness ==
  /\ Names = {<<"a", "1">>, <<"A", "1">>}
  /\ pc = "menu"
  /\ out = <<Msg("This student name already exists")>> \o display_menu

\* C3 as stated: an empty or digits-only name aborts add-student, control is
\* back at the menu and the roster is unchanged.
C3_InvalidNameAborts ==
  [][(pc = "add_name" /\ (inp' = <<>> \/ isdigit(inp')))
     => (pc' = "menu" /\ student_list' = student_list)]_vars

\* C3 amended: an empty or digits-only name creates no record and the
\* program prints the invalid-name message and asks for a name again; it
\* goes back to the menu from the name prompt only on a line that is a
\* valid name.
C3_InvalidNameReprompts ==
  /\ [][(pc = "add_name" /\ (inp' = <<>> \/ isdigit(inp')))
        => /\ pc' = "add_name"
           /\ student_list' = student_list
           /\ out' = <<Msg("Please enter a valid name (not empty and not just numbers)")>>]_vars
  /\ [][(pc = "add_name" /\ pc' = "menu")
        => (Strip(inp') # <<>> /\ ~isdigit(Strip(inp')))]_vars

\* A digits-only name was just refused with a non-empty roster, and the
\* program is still at the name prompt.
C3_Witness ==
  /\ pc = "add_name"
  /\ inp = <<"1", "2">>
  /\ out = <<Msg("Please enter a valid name (not empty and not just numbers)")>>
  /\ Len(student_list) = 1

\* C4: a name that is already in the roster (as typed, or once surrounding
\* whitespace is removed) ends add-student at the menu with the roster
\* unchanged.
C4_DuplicateLeavesRoster ==
  [][(pc = "add_name" /\ (inp' \in Names \/ Strip(inp') \in Names))
     => (pc' = "menu" /\ student_list' = student_list)]_vars

\* The name of a record that already has grades was just entered again.
C4_Witness ==
  /\ pc = "menu"
  /\ inp = <<"a", "1">>
  /\ out = <<Msg("This student name already exists")>> \o display_menu
  /\ \E i \in 1..Len(student_list) :
       student_list[i].name = <<"a", "1">> /\ student_list[i].grades # <<>>

\* C5 as stated: a line that is non-empty, not digits-only and not in the
\* roster is appended as a new record with that name and no grades.
C5_ValidNameAppended ==
  [][(/\ pc = "add_name"
      /\ inp' # <<>>
      /\ ~isdigit(inp')
      /\ inp' \notin Names)
     => student_list' = Append(student_list, [name |-> inp', grades |-> <<>>])]_vars

\* C5 amended: the conditions are on the line with surrounding whitespace
\* removed, and the record appended carries that stripped name; all
\* earlier records keep name, grades and position.
C5_StrippedNameAppended ==
  [][(/\ pc = "add_name"
      /\ Strip(inp') # <<>>
      /\ ~isdigit(Strip(inp'))
      /\ Strip(inp') \notin Names)
     => /\ student_list' =
             Append(student_list, [name |-> Strip(inp'), grades |-> <<>>])
        /\ pc' = "menu"]_vars

\* Two distinct valid names were added in sequence, the second typed with a
\* blank on either side; both are stored with no grades.
C5_Witness ==
  /\ Len(student_list) = 2
  /\ student_list[1] = [name |-> <<"A", "1">>, grades |-> <<>>]
  /\ student_list[2] = [name |-> <<"a", "1">>, grades |-> <<>>]
  /\ inp = <<" ", "a", "1", " ">>
  /\ out[1].kind = "Student added successfully"

\* C6: at the menu a non-numeric line prints the error and prompts again,
\* and an integer outside 1..5 runs invalid_choice and shows the menu
\* again; in both cases the roster is unchanged.
C6_BadMenuInput ==
  [][pc = "menu"
     => /\ ~ParseInt(inp').ok
           => /\ pc' = "menu"
              /\ student_list' = student_list
              /\ out' = <<Msg("Please enter a valid number")>>
        /\ (ParseInt(inp').ok /\ ParseInt(inp').val \notin 1..5)
           => /\ pc' = "menu"
              /\ student_list' = student_list
              /\ out' = <<Msg("Invalid option selected")>> \o display_menu]_vars

\* A negative choice was just refused with a roster that holds a grade.
C6_Witness ==
  /\ pc = "menu"
  /\ inp = <<"-", "1">>
  /\ out[1].kind = "Invalid option selected"
  /\ \E i \in 1..Len(student_list) : student_list[i].grades # <<>>

\* C7: a step ends in the terminated state exactly when it reads the
\* integer 5 at the menu prompt.
C7_ExitOnlyOnFive ==
  [][(pc' = "exited")
     <=> (pc = "menu" /\ ParseInt(inp').ok /\ ParseInt(inp').val = 5)]_vars

\* The program exited after a "5" had been entered in the grade loop and
\* stored as a grade.
C7_Witness ==
  /\ pc = "exited"
  /\ out = <<Msg("Goodbye!")>>
  /\ \E i \in 1..Len(student_list) :
       \E j \in 1..Len(student_list[i].grades) : student_list[i].grades[j] = 5

\* C8: every step leaves the roster unchanged, or appends one record with
\* no grades (add student), or appends one grade to the record that was
\* named when the grade loop started; menu steps never change the roster.
C8_AppendOnly ==
  /\ [][\/ student_list' = student_list
        \/ /\ pc = "add_name"
           /\ Len(student_list') = Len(student_list) + 1
           /\ SubSeq(student_list', 1, Len(student_list)) = student_list
           /\ student_list'[Len(student_list')].grades = <<>>
        \/ /\ pc = "grade"
           /\ cur \in 1..Len(student_list)
           /\ Len(student_list') = Len(student_list)
           /\ \A i \in 1..Len(student_list) :
                /\ student_list'[i].name = student_list[i].name
                /\ i # cur => student_list'[i].grades = student_list[i].grades
           /\ Len(student_list'[cur].grades) = Len(student_list[cur].grades) + 1
           /\ SubSeq(student_list'[cur].grades, 1, Len(student_list[cur].grades))
                = student_list[cur].grades]_vars
  /\ [][(pc = "grades_name" /\ pc' = "grade")
        => (cur' \in 1..Len(student_list)
            /\ student_list[cur'].name = Strip(inp'))]_vars
  /\ [][(pc = "grade" /\ pc' = "grade") => cur' = cur]_vars

\* A second grade was just appended to the second record, after the first
\* record's grades.
C8_Witness ==
  /\ pc = "grade"
  /\ cur = 2
  /\ Len(student_list) = 2
  /\ student_list[1].grades = <<5>>
  /\ student_list[2].grades = <<0, 100>>
  /\ out = <<Line("Grade added", <<>>, FALSE, 100, 1)>>

\* Indices of the records that have at least one grade.
Graded == {i \in 1..Len(student_list) : student_list[i].grades # <<>>}

\* mean of record j <= mean of record i, as exact rationals
MeanLeq(j, i) ==
  sum(student_list[j].grades) * Len(student_list[i].grades)
    <= sum(student_list[i].grades) * Len(student_list[j].grades)

\* Record i has the maximal mean among the graded records and is the first
\* such record in insertion order.
IsFirstMaximal(i) ==
  /\ i \in Graded
  /\ \A j \in Graded : MeanLeq(j, i)
  /\ \A j \in Graded : j < i => ~MeanLeq(i, j)

\* C9: find-top-performer reports the first-inserted record of maximal
\* exact mean among the records with grades, never a record without
\* grades; it reports "No students in records" on an empty roster and
\* "No students have grades yet" when no record has grades.
C9_TopPerformer ==
  [][(pc = "menu" /\ ParseInt(inp').ok /\ ParseInt(inp').val = 4)
     => /\ student_list' = student_list
        /\ pc' = "menu"
        /\ IF student_list = <<>>
             THEN out' = <<Msg("No students in records")>> \o display_menu
             ELSE IF Graded = {}
               THEN out' = <<Msg("No students have grades yet")>> \o display_menu
               ELSE /\ Len(out') = 2
                    /\ out'[2] = display_menu[1]
                    /\ out'[1].kind = "Top student"
                    /\ \E i \in 1..Len(student_list) :
                         /\ IsFirstMaximal(i)
                         /\ out'[1].name = student_list[i].name
                         /\ out'[1].num = Format1f(Mean(student_list[i].grades))]_vars

\* Two records tie on the mean with different grade sequences, and the
\* first of them was just reported.
C9_Witness ==
  /\ Len(student_list) = 2
  /\ student_list[1].grades = <<5>>
  /\ student_list[2].grades = <<5, 5>>
  /\ inp = <<"4">>
  /\ out[1].kind = "Top student"
  /\ out[1].name = student_list[1].name

RECURSIVE ProdLen(_)
\* product of the grade counts of the graded records among the first k
ProdLen(k) ==
  IF k = 0 THEN 1
  ELSE (IF k \in Graded THEN Len(student_list[k].grades) ELSE 1) * ProdLen(k - 1)

RECURSIVE ScaledSum(_, _)
\* sum over the graded records among the first k of mean * P
ScaledSum(k, P) ==
  IF k = 0 THEN 0
  ELSE (IF k \in Graded
          THEN sum(student_list[k].grades) * (P \div Len(student_list[k].grades))
          ELSE 0) + ScaledSum(k - 1, P)

\* mean of the means of the graded records
ClassMean ==
  LET n == Len(student_list)
      P == ProdLen(n)
  IN Rat(ScaledSum(n, P), P * Cardinality(Graded))

\* C10: the report on a non-empty roster has one line per record in
\* insertion order, "N/A" exactly for the records without grades, and the
\* aggregate block exactly when some record has grades; highest, lowest
\* and class average are the maximum, minimum and mean of the means of the
\* graded records only, lowest <= class average <= highest, and the
\* highest equals the average find-top-performer reports.
C10_Report ==
  [][(/\ pc = "menu"
      /\ ParseInt(inp').ok
      /\ ParseInt(inp').val = 3
      /\ student_list # <<>>)
     => LET n == Len(student_list)
        IN /\ student_list' = student_list
           /\ pc' = "menu"
           /\ out'[1] = Msg("----- Student Report -----")
           /\ out'[Len(out')] = display_menu[1]
           /\ \A i \in 1..n :
                /\ out'[i + 1].kind = "average grade"
                /\ out'[i + 1].name = student_list[i].name
                /\ out'[i + 1].na <=> (student_list[i].grades = <<>>)
                /\ ~out'[i + 1].na =>
                     out'[i + 1].num * Len(student_list[i].grades)
                       = sum(student_list[i].grades) * out'[i + 1].den
           /\ Graded = {} => Len(out') = n + 2
           /\ Graded # {} =>
                /\ Len(out') = n + 7
                /\ out'[n + 2] = Msg("-------------------------------")
                /\ out'[n + 6] = Msg("-------------------------------")
                /\ out'[n + 3].kind = "Highest Average"
                /\ \E i \in Graded :
                     /\ \A j \in Graded : MeanLeq(j, i)
                     /\ out'[n + 3].num = Format1f(Mean(student_list[i].grades))
                /\ out'[n + 4].kind = "Lowest Average"
                /\ \E i \in Graded :
                     /\ \A j \in Graded : MeanLeq(i, j)
                     /\ out'[n + 4].num = Format1f(Mean(student_list[i].grades))
                /\ out'[n + 5].kind = "Class Average"
                /\ out'[n + 5].num = Format1f(ClassMean)
                /\ out'[n + 4].num <= out'[n + 5].num
                /\ out'[n + 5].num <= out'[n + 3].num
                /\ out'[n + 3].num = find_best_student(student_list)[1].num]_vars

\* A report was just printed for a roster whose first record has no grades
\* and whose second has the mean 2.5: one "N/A" line, and an aggregate
\* block built from the graded record alone.
C10_Witness ==
  /\ Len(student_list) = 2
  /\ student_list[1].grades = <<>>
  /\ student_list[2].grades = <<0, 5>>
  /\ inp = <<"3">>
  /\ Len(out) = 9
  /\ out[2].na
  /\ ~out[3].na
  /\ out[6].kind = "Lowest Average"
  /\ out[6].num = 25

====
